---- MODULE Spec2Model ----
(***************************************************************************)
(* geneviz: the interval stacking / layout engine.                         *)
(*                                                                         *)
(* Two implementations of the First-Fit Decreasing Height layout live in   *)
(* the repository:                                                         *)
(*   "feature"    : geneviz/tracks/feature.py  stack, _stack, _pack_ffdh   *)
(*   "annotation" : geneviz/tracks/annotation/base.py  StackedTrack._stack *)
(*                  and pack_ffdh                                          *)
(* One layout call is modelled as a small state machine: Call builds and   *)
(* sorts the boxes, Place performs one iteration of the packing loop, and  *)
(* Return computes the level offsets and the y column.                     *)
(*                                                                         *)
(* Heights, spacings and y values are floats in the code; here they are    *)
(* integers counted in units of 0.05 (the default spacing of _stack).      *)
(*                                                                         *)
(* Also modelled: merge_intervals (geneviz/util/genomic.py) as a sweep     *)
(* over the sorted pairs, GenomicDataFrame with its lazily built, cached   *)
(* interval trees, the label augmentation of stack, and                    *)
(* StackedTrack.get_height.                                                *)
(***************************************************************************)
EXTENDS Integers, Sequences, FiniteSets, TLC

\* ---------------------------------------------------------------- bounds
MaxCoord == 3
MaxHeight == 2
MaxSpacing == 2
MaxN == 3
MaxRows == 3
MaxBad == 2
MaxPairs == 3
MaxFrameRows == 3
MaxStaleRows == 2
MaxOps == 3
MaxActors == 3
MaxPosition == 5
MaxWidth == 4
MaxRecords == 3

\* StackedTrack.__init__(self, actors, reverse=False, spacing=0.2): four units
DefaultTrackSpacing == 4

\* Feature.__init__(..., height=1, ...): twenty units
DefaultFeatureHeight == 20

\* _stack(data, label=None, label_func=None, ax=None, spacing=0.05): one unit
DefaultSpacing == 1

Coords == 0..MaxCoord
Heights == 0..MaxHeight
Spacings == 0..MaxSpacing
Groups == {1, 2}
Impls == {"feature", "annotation"}

VARIABLES impl, data, group, spacing, pc, stack_spacing, objects, levels,
          level_heights, level_offsets, y, err

\* stack's label column and axis direction with the (x, label) arguments of
\* every label_func call; the region and result of StackedTrack.get_height.
VARIABLES label, reversed, label_calls, region, track_height

\* The axis a track draws on: the number of texts it holds and the upper
\* y-limit set on it; the y given to every actor StackedTrack.draw draws.
VARIABLES ax_texts, ax_ylim, actor_y

\* merge_intervals: the argument, the generator's locals and what it yielded.
VARIABLES mi_in, mi_rest, mi_low, mi_high, mi_out, mi_pc

layoutVars == <<impl, data, group, spacing, pc, stack_spacing, objects, levels,
                level_heights, level_offsets, y, err, label, reversed,
                label_calls, region, track_height, ax_texts, ax_ylim,
                actor_y>>

mergeVars == <<mi_in, mi_rest, mi_low, mi_high, mi_out, mi_pc>>

\* GenomicDataFrame: the rows, the cached _trees (gdf_built is "_trees is not
\* None"), and the last call with what it returned or raised.
VARIABLES gdf_rows, gdf_built, gdf_trees, gdf_last, gdf_query, gdf_result,
          gdf_err, gdf_ops

frameVars == <<gdf_rows, gdf_built, gdf_trees, gdf_last, gdf_query,
               gdf_result, gdf_err, gdf_ops>>

\* FeatureTrack.from_position: the 'position' column, the width and the
\* start/end columns assigned.
VARIABLES fp_position, fp_width, fp_out, fp_pc

posVars == <<fp_position, fp_width, fp_out, fp_pc>>

\* TabixFile.fetch: the records of the indexed file, the arguments of the
\* call and the records yielded.
VARIABLES tb_file, tb_query, tb_out, tb_pc

tabixVars == <<tb_file, tb_query, tb_out, tb_pc>>

vars == <<layoutVars, mergeVars, frameVars, posVars, tabixVars>>

\* ------------------------------------------------------------- helpers
Min(S) == CHOOSE x \in S : \A z \in S : x <= z
Max(S) == CHOOSE x \in S : \A z \in S : x >= z

RECURSIVE SumTo(_, _)
SumTo(s, k) == IF k = 0 THEN 0 ELSE s[k] + SumTo(s, k - 1)

Reverse(s) == [i \in 1..Len(s) |-> s[Len(s) + 1 - i]]

SeqsUpTo(S, n) == UNION {[1..k -> S] : k \in 0..n}

\* ------------------------------------------------------- sorting (sorted)
\* Variant: the span length is left out of the sort key.
KeyLessHeightOnly(im, a, b) == a.height < b.height

\* feature.py: key=lambda obj: (obj.height, obj.end - obj.start), tuples
\* compare lexicographically; base.py: key=attrgetter('height').
KeyLess(im, a, b) ==
    IF im = "feature"
    THEN \/ a.height < b.height
         \/ a.height = b.height /\ (a.end - a.start) < (b.end - b.start)
    ELSE a.height < b.height

\* Python's sorted is stable: an element goes after every element whose key
\* is not greater than its own.
RECURSIVE InsertStable(_, _, _)
InsertStable(im, x, s) ==
    IF s = <<>> THEN <<x>>
    ELSE IF KeyLess(im, x, Head(s)) THEN <<x>> \o s
    ELSE <<Head(s)>> \o InsertStable(im, x, Tail(s))

RECURSIVE Sorted(_, _)
Sorted(im, s) ==
    IF s = <<>> THEN <<>>
    ELSE InsertStable(im, s[Len(s)], Sorted(im, SubSeq(s, 1, Len(s) - 1)))

\* Variant: the sorted list is not reversed.
SortIncreasing(im, s) == Sorted(im, s)

\* sorted(...) followed by [::-1]
SortDecreasing(im, s) == Reverse(Sorted(im, s))

\* ------------------------------------------------ boxes fed to the packer
\* data.itertuples(): one box per row, Index is the row label.
RowBoxes(d) ==
    [i \in 1..Len(d) |->
        [Index |-> i, start |-> d[i].start, end |-> d[i].end,
         height |-> d[i].height]]

Members(d, g) == {i \in 1..Len(d) : d[i].grp = g}

\* Variant: 'start' aggregated with 'first' instead of min.
GroupBoxFirstStart(d, g) ==
    [Index  |-> g,
     start  |-> d[Min(Members(d, g))].start,
     end    |-> Max({d[i].end : i \in Members(d, g)}),
     height |-> Max({d[i].height : i \in Members(d, g)})]

\* Variant: 'end' aggregated with min instead of max.
GroupBoxMinEnd(d, g) ==
    [Index  |-> g,
     start  |-> Min({d[i].start : i \in Members(d, g)}),
     end    |-> Min({d[i].end : i \in Members(d, g)}),
     height |-> Max({d[i].height : i \in Members(d, g)})]

\* data.groupby(group).agg({'start': min, 'end': max, 'height': max})
GroupBox(d, g) ==
    [Index  |-> g,
     start  |-> Min({d[i].start : i \in Members(d, g)}),
     end    |-> Max({d[i].end : i \in Members(d, g)}),
     height |-> Max({d[i].height : i \in Members(d, g)})]

RECURSIVE AscendingSeq(_)
AscendingSeq(S) ==
    IF S = {} THEN <<>> ELSE <<Min(S)>> \o AscendingSeq(S \ {Min(S)})

\* groupby yields one row per group key, keys in ascending order.
GroupedBoxes(d) ==
    LET keys == AscendingSeq({d[i].grp : i \in 1..Len(d)})
    IN  [k \in 1..Len(keys) |-> GroupBox(d, keys[k])]

BaseBoxes(d, grouped) == IF grouped THEN GroupedBoxes(d) ELSE RowBoxes(d)

\* agg_funcs[label] = 'first': the label of the group's first member row.
GroupLabel(d, g) == d[Min(Members(d, g))].lab

\* data[label] of the frame handed to _stack.
BoxLabels(d, grouped) ==
    IF grouped
    THEN LET keys == AscendingSeq({d[i].grp : i \in 1..Len(d)})
         IN  [k \in 1..Len(keys) |-> GroupLabel(d, keys[k])]
    ELSE [i \in 1..Len(d) |-> d[i].lab]

\* Variant: label_func is called for every member row of the input.
LabelCallsPerRow(d, grouped, rev) ==
    [i \in 1..Len(d) |->
        [x |-> IF rev THEN d[i].end ELSE d[i].start, label |-> d[i].lab]]

\* _augment_with_labels: zip(data[label], data[anchor_col]), one label_func
\* call per row of the frame handed to _stack.
LabelCalls(d, grouped, rev) ==
    LET boxes == BaseBoxes(d, grouped)
        labels == BoxLabels(d, grouped)
    IN  [k \in 1..Len(boxes) |->
            [x |-> IF rev THEN boxes[k].end ELSE boxes[k].start,
             label |-> labels[k]]]

\* Variant: a label drawn for measurement stays on the axis.
TextsRemovedNone(calls) == 0

\* txt.remove(): every label drawn for measurement is removed again.
TextsRemoved(calls) == Len(calls)

\* A label stands for its rendered width in data coordinates.
LabelWidth(lab) == lab

\* label_func(x=x, y=0, label=lab, ax=ax).x0: the label is drawn right
\* aligned at x, so it ends at x and extends against the axis direction.
LabelX0(call, rev) ==
    IF rev THEN call.x + LabelWidth(call.label)
    ELSE call.x - LabelWidth(call.label)

\* data.assign(**{anchor_col: positions})
AugmentWithLabels(boxes, calls, rev) ==
    [k \in 1..Len(boxes) |->
        IF rev THEN [boxes[k] EXCEPT !.end = LabelX0(calls[k], rev)]
        ELSE [boxes[k] EXCEPT !.start = LabelX0(calls[k], rev)]]

\* ------------------------------------------------- StackedTrack actors
\* FeatureTrack._get_features: 'seqname == .. and end >= .. and start <= ..'
GetFeatures(d, r) ==
    {i \in 1..Len(d) :
        d[i].seqname = r.seqname /\ d[i].end >= r.start /\ d[i].start <= r.end}

\* StackedTrack._get_actors on the actors S it was constructed with.
GetActors(d, S, r) ==
    {i \in S :
        d[i].seqname = r.seqname /\ d[i].end > r.start /\ d[i].start < r.end}

\* a.get_bounding_box(ax) of an unnamed Feature, in actor order.
ActorBoxes(d, S) ==
    LET idx == AscendingSeq(S)
    IN  [k \in 1..Len(idx) |->
            [Index |-> idx[k], start |-> d[idx[k]].start,
             end |-> d[idx[k]].end, height |-> d[idx[k]].height]]

\* Variant: one spacing per level.
TotalSpacingPerLevel(n, s) == n * s

\* total_spacing = (len(level_heights) + 1) * self._spacing
TotalSpacing(n, s) == (n + 1) * s

\* ---------------------------------------------------- IntervalTree level
\* A level is the set of boxes stored in one IntervalTree.
\* Variant: a zero-length interval is not taken as null.
IsNullStrict(b) == b.start > b.end

\* Interval.is_null(): begin >= end
IsNull(b) == b.start >= b.end

OverlapsPoint(level, p) == \E iv \in level : iv.start <= p /\ p < iv.end

BoundaryTable(level) == {iv.start : iv \in level} \cup {iv.end : iv \in level}

\* Variant: only the begin point of the query is tested.
LevelOverlapsBeginOnly(level, begin, end) ==
    IF level = {} THEN FALSE
    ELSE IF begin >= end THEN FALSE
    ELSE OverlapsPoint(level, begin)

\* Variant: stored intervals are taken as closed, [start, end].
LevelOverlapsClosed(level, begin, end) ==
    IF level = {} THEN FALSE
    ELSE IF begin >= end THEN FALSE
    ELSE \E iv \in level : iv.start <= end /\ begin <= iv.end

\* IntervalTree.overlaps(begin, end)
LevelOverlaps(level, begin, end) ==
    IF level = {} THEN FALSE
    ELSE IF begin >= end THEN FALSE
    ELSE \/ OverlapsPoint(level, begin)
         \/ \E bound \in BoundaryTable(level) :
                begin < bound /\ bound < end /\ OverlapsPoint(level, bound)

\* -------------------------------------------------- one loop iteration
\* st = [levels, level_heights, err]; the body of "for obj in objects".
\* Variant: a spare empty level is opened along with every new level.
PlaceStepSpare(st, obj) ==
    LET fits == {k \in 1..Len(st.levels) :
                    ~LevelOverlaps(st.levels[k], obj.start, obj.end)}
    IN  IF IsNull(obj)
        THEN [st EXCEPT !.err = "ValueError"]
        ELSE IF fits # {}
        THEN [st EXCEPT !.levels[Min(fits)] = @ \cup {obj}]
        ELSE [levels        |-> Append(Append(st.levels, {obj}), {}),
              level_heights |-> Append(Append(st.level_heights, obj.height), 0),
              err           |-> st.err]

\* Variant: the interval goes to the last level that fits (no break).
PlaceStepLastFit(st, obj) ==
    LET fits == {k \in 1..Len(st.levels) :
                    ~LevelOverlaps(st.levels[k], obj.start, obj.end)}
    IN  IF IsNull(obj)
        THEN [st EXCEPT !.err = "ValueError"]
        ELSE IF fits # {}
        THEN [st EXCEPT !.levels[Max(fits)] = @ \cup {obj}]
        ELSE [levels        |-> Append(st.levels, {obj}),
              level_heights |-> Append(st.level_heights, obj.height),
              err           |-> st.err]

\* Variant: the interval is added to every level that fits.
PlaceStepAllFits(st, obj) ==
    LET fits == {k \in 1..Len(st.levels) :
                    ~LevelOverlaps(st.levels[k], obj.start, obj.end)}
    IN  IF IsNull(obj)
        THEN [st EXCEPT !.err = "ValueError"]
        ELSE IF fits # {}
        THEN [st EXCEPT !.levels =
                [k \in 1..Len(st.levels) |->
                    IF k \in fits THEN st.levels[k] \cup {obj}
                    ELSE st.levels[k]]]
        ELSE [levels        |-> Append(st.levels, {obj}),
              level_heights |-> Append(st.level_heights, obj.height),
              err           |-> st.err]

\* addi and from_tuples raise ValueError for a null interval.
PlaceStep(st, obj) ==
    LET fits == {k \in 1..Len(st.levels) :
                    ~LevelOverlaps(st.levels[k], obj.start, obj.end)}
    IN  IF IsNull(obj)
        THEN [st EXCEPT !.err = "ValueError"]
        ELSE IF fits # {}
        THEN [st EXCEPT !.levels[Min(fits)] = @ \cup {obj}]
        ELSE [levels        |-> Append(st.levels, {obj}),
              level_heights |-> Append(st.level_heights, obj.height),
              err           |-> st.err]

\* _pack_ffdh / pack_ffdh as a function of the boxes: sort, then the loop.
RECURSIVE PackAll(_, _)
PackAll(st, objs) ==
    IF objs = <<>> \/ st.err # "none" THEN st
    ELSE PackAll(PlaceStep(st, Head(objs)), Tail(objs))

Pack(im, boxes) ==
    PackAll([levels |-> <<>>, level_heights |-> <<>>, err |-> "none"],
            SortDecreasing(im, boxes))

\* ------------------------------------------------------- level offsets
\* Variant: the cumulative sum is not shifted by the first level's height.
FeatureOffsetsUnshifted(h, sp) ==
    [k \in 1..Len(h) |-> SumTo(h, k) + k * sp]

\* feature.py: np.cumsum(level_heights) - level_heights[0]
\*             + np.arange(1, n + 1) * spacing
FeatureOffsets(h, sp) ==
    [k \in 1..Len(h) |-> SumTo(h, k) - h[1] + k * sp]

\* base.py: np.hstack([0, np.cumsum(level_heights)[:-1]])
\*          + (np.arange(len(level_cumsum)) + 1) * spacing
AnnotationOffsets(h, sp) ==
    IF h = <<>> THEN <<sp>>
    ELSE [k \in 1..Len(h) |-> SumTo(h, k - 1) + k * sp]

LevelOffsets(im, h, sp) ==
    IF im = "feature" THEN FeatureOffsets(h, sp) ELSE AnnotationOffsets(h, sp)

\* rows.append((obj.Index, offset)): the offset of the level holding Index.
OffsetOf(lv, off, idx) ==
    off[CHOOSE k \in 1..Len(lv) : \E b \in lv[k] : b.Index = idx]

\* pd.merge(data, heights[[group, 'y']], on=group) / pd.concat(axis=1)
YColumn(d, grouped, lv, off) ==
    [i \in 1..Len(d) |->
        OffsetOf(lv, off, IF grouped THEN d[i].grp ELSE i)]

\* ------------------------------------------------------------ actions
\* stack(...) up to the start of the packing loop.
Call ==
    /\ pc = "call"
    /\ label_calls' =
         IF label THEN LabelCalls(data, group, reversed) ELSE <<>>
    /\ objects' = SortDecreasing(impl,
                    IF label
                    THEN AugmentWithLabels(BaseBoxes(data, group),
                                           label_calls', reversed)
                    ELSE BaseBoxes(data, group))
    /\ stack_spacing' =
         IF impl = "feature" /\ ~group THEN DefaultSpacing ELSE spacing
    /\ levels' = <<>>
    /\ level_heights' = <<>>
    /\ pc' = "pack"
    /\ ax_texts' = ax_texts + Len(label_calls') - TextsRemoved(label_calls')
    /\ UNCHANGED <<impl, data, group, spacing, level_offsets, y, err>>
    /\ UNCHANGED <<label, reversed, region, track_height, ax_ylim, actor_y>>
    /\ UNCHANGED <<mergeVars, frameVars, posVars, tabixVars>>

\* One iteration of the packing loop.
Place ==
    /\ pc = "pack"
    /\ objects # <<>>
    /\ LET r == PlaceStep([levels |-> levels, level_heights |-> level_heights,
                           err |-> err], Head(objects))
       IN  /\ levels' = r.levels
           /\ level_heights' = r.level_heights
           /\ err' = r.err
           /\ pc' = IF r.err = "none" THEN "pack" ELSE "raised"
           /\ objects' = IF r.err = "none" THEN Tail(objects) ELSE objects
    /\ UNCHANGED <<impl, data, group, spacing, stack_spacing, level_offsets, y>>
    /\ UNCHANGED <<label, reversed, label_calls, region, track_height>>
    /\ UNCHANGED <<ax_texts, ax_ylim, actor_y>>
    /\ UNCHANGED <<mergeVars, frameVars, posVars, tabixVars>>

\* The loop is over: offsets and the y column (level_heights[0] raises
\* IndexError on an empty list in feature.py).
Return ==
    /\ pc = "pack"
    /\ objects = <<>>
    /\ IF impl = "feature" /\ level_heights = <<>>
       THEN /\ err' = "IndexError"
            /\ pc' = "raised"
            /\ UNCHANGED <<level_offsets, y>>
       ELSE /\ level_offsets' = LevelOffsets(impl, level_heights, stack_spacing)
            /\ y' = YColumn(data, group, levels, level_offsets')
            /\ pc' = "done"
            /\ UNCHANGED err
    /\ UNCHANGED <<impl, data, group, spacing, stack_spacing, objects, levels,
                   level_heights>>
    /\ UNCHANGED <<label, reversed, label_calls, region, track_height>>
    /\ UNCHANGED <<ax_texts, ax_ylim, actor_y>>
    /\ UNCHANGED <<mergeVars, frameVars, posVars, tabixVars>>

Next == Call \/ Place \/ Return

\* FeatureTrack.get_height / StackedTrack.get_height up to the start of the
\* packing loop of pack_ffdh.
CallGetHeight ==
    /\ pc = "call"
    /\ impl = "annotation"
    /\ objects' = SortDecreasing(impl,
                    ActorBoxes(data,
                        GetActors(data, GetFeatures(data, region), region)))
    /\ stack_spacing' = spacing
    /\ levels' = <<>>
    /\ level_heights' = <<>>
    /\ pc' = "pack"
    /\ UNCHANGED <<impl, data, group, spacing, level_offsets, y, err>>
    /\ UNCHANGED <<label, reversed, label_calls, region, track_height>>
    /\ UNCHANGED <<ax_texts, ax_ylim, actor_y>>
    /\ UNCHANGED <<mergeVars, frameVars, posVars, tabixVars>>

\* return sum(level_heights) + total_spacing
ReturnHeight ==
    /\ pc = "pack"
    /\ objects = <<>>
    /\ track_height' = SumTo(level_heights, Len(level_heights)) +
                          TotalSpacing(Len(level_heights), stack_spacing)
    /\ pc' = "done"
    /\ UNCHANGED <<impl, data, group, spacing, stack_spacing, objects, levels,
                   level_heights, level_offsets, y, err>>
    /\ UNCHANGED <<label, reversed, label_calls, region>>
    /\ UNCHANGED <<ax_texts, ax_ylim, actor_y>>
    /\ UNCHANGED <<mergeVars, frameVars, posVars, tabixVars>>

NextTrack == CallGetHeight \/ Place \/ ReturnHeight

\* Feature.get_bounding_box of the actors S: a named feature draws its
\* label, takes the label's extent as start and removes the label.
BoundingBoxes(d, S, named) ==
    LET boxes == ActorBoxes(d, S)
    IN  IF named
        THEN [k \in 1..Len(boxes) |->
                [boxes[k] EXCEPT !.start =
                    LabelX0([x |-> boxes[k].start,
                             label |-> d[boxes[k].Index].lab], FALSE)]]
        ELSE boxes

BoundingBoxCalls(d, S, named) ==
    LET boxes == ActorBoxes(d, S)
    IN  IF named
        THEN [k \in 1..Len(boxes) |->
                [x |-> boxes[k].start, label |-> d[boxes[k].Index].lab]]
        ELSE <<>>

\* get_height as a function of the actors, the region and the spacing.
GetHeight(d, r, sp, named) ==
    LET res == Pack("annotation",
                    BoundingBoxes(d, GetActors(d, GetFeatures(d, r), r),
                                  named))
    IN  SumTo(res.level_heights, Len(res.level_heights)) +
            TotalSpacing(Len(res.level_heights), sp)

\* FeatureTrack.draw / StackedTrack.draw (annotation) up to the start of
\* the packing loop of pack_ffdh.
CallDraw ==
    /\ pc = "call"
    /\ impl = "annotation"
    /\ LET S == GetActors(data, GetFeatures(data, region), region)
       IN  /\ label_calls' = BoundingBoxCalls(data, S, label)
           /\ objects' = SortDecreasing(impl, BoundingBoxes(data, S, label))
    /\ ax_texts' = ax_texts + Len(label_calls') - TextsRemoved(label_calls')
    /\ stack_spacing' = spacing
    /\ levels' = <<>>
    /\ level_heights' = <<>>
    /\ pc' = "pack"
    /\ UNCHANGED <<impl, data, group, spacing, level_offsets, y, err>>
    /\ UNCHANGED <<label, reversed, region, track_height, ax_ylim, actor_y>>
    /\ UNCHANGED <<mergeVars, frameVars, posVars, tabixVars>>

\* Variant: the spacing is not added on top of the highest actor.
DrawLimitNoSpacing(ys, d, sp) ==
    Max({0} \cup {ys[i] + d[i].height : i \in DOMAIN ys})

\* y_max = max(y_max, y + actor.get_height()); y_max += self._spacing
DrawLimit(ys, d, sp) ==
    Max({0} \cup {ys[i] + d[i].height : i \in DOMAIN ys}) + sp

\* StackedTrack.draw after the packing: offsets, actor.draw(ax, y=y) for
\* every actor (a named Feature adds its label), ax.set_ylim.
ReturnDraw ==
    /\ pc = "pack"
    /\ impl = "annotation"
    /\ objects = <<>>
    /\ level_offsets' = AnnotationOffsets(level_heights, stack_spacing)
    /\ actor_y' =
         [i \in UNION {{b.Index : b \in levels[k]} : k \in 1..Len(levels)} |->
             OffsetOf(levels, level_offsets', i)]
    /\ ax_ylim' = DrawLimit(actor_y', data, stack_spacing)
    /\ ax_texts' = ax_texts +
         (IF label THEN Cardinality(DOMAIN actor_y') ELSE 0)
    /\ pc' = "drawn"
    /\ UNCHANGED <<impl, data, group, spacing, stack_spacing, objects, levels,
                   level_heights, y, err>>
    /\ UNCHANGED <<label, reversed, label_calls, region, track_height>>
    /\ UNCHANGED <<mergeVars, frameVars, posVars, tabixVars>>

\* FeatureTrack.draw (tracks/feature.py) calls stack for the features.
StackCall == impl = "feature" /\ Call

StackReturn == impl = "feature" /\ Return

\* FeatureTrack.draw (tracks/feature.py) after stack: _draw_label_group
\* once per group, or _draw_label_single once per row; ax.set_ylim.
DrawTrack ==
    /\ pc = "done"
    /\ impl = "feature"
    /\ ax_texts' = ax_texts +
         (IF ~label THEN 0
          ELSE IF group
               THEN Cardinality({data[i].grp : i \in 1..Len(data)})
               ELSE Len(data))
    /\ ax_ylim' = Max({y[i] : i \in 1..Len(y)}) + data[1].height + spacing
    /\ pc' = "drawn"
    /\ UNCHANGED <<impl, data, group, spacing, stack_spacing, objects, levels,
                   level_heights, level_offsets, y, err>>
    /\ UNCHANGED <<label, reversed, label_calls, region, track_height,
                   actor_y>>
    /\ UNCHANGED <<mergeVars, frameVars, posVars, tabixVars>>

NextAxis ==
    StackCall \/ StackReturn \/ DrawTrack \/ CallDraw \/ ReturnDraw \/ Place

\* ------------------------------------------------------ merge_intervals
\* Pairs are tuples <<start, end>>.
\* Variant: the intervals are swept in the order given.
SortByStartNone(s) == s

RECURSIVE InsertByStart(_, _)
InsertByStart(x, s) ==
    IF s = <<>> THEN <<x>>
    ELSE IF x[1] < Head(s)[1] THEN <<x>> \o s
    ELSE <<Head(s)>> \o InsertByStart(x, Tail(s))

\* sorted(intervals, key=operator.itemgetter(0)), stable
RECURSIVE SortByStart(_)
SortByStart(s) ==
    IF s = <<>> THEN <<>>
    ELSE InsertByStart(s[Len(s)], SortByStart(SubSeq(s, 1, Len(s) - 1)))

\* Variant: only a start strictly below the run's high is merged.
AbsorbsStrict(high, iv) == iv[1] < high

\* Variant: a start one past the run's high is merged as well.
AbsorbsAdjacent(high, iv) == iv[1] <= high + 1

\* if iv[0] <= high
Absorbs(high, iv) == iv[1] <= high

\* Variant: the run keeps its high.
MergedHighKeep(high, iv) == high

\* Variant: the run takes the end of the merged interval.
MergedHighLast(high, iv) == iv[2]

\* high = max(high, iv[1])
MergedHigh(high, iv) == Max({high, iv[2]})

\* The body of "for iv in intervals[1:]"; st = [low, high, out].
MergeStepOf(st, iv) ==
    IF Absorbs(st.high, iv)
    THEN [st EXCEPT !.high = MergedHigh(st.high, iv)]
    ELSE [low |-> iv[1], high |-> iv[2],
          out |-> Append(st.out, <<st.low, st.high>>)]

RECURSIVE MergeSweep(_, _)
MergeSweep(st, rest) ==
    IF rest = <<>> THEN Append(st.out, <<st.low, st.high>>)
    ELSE MergeSweep(MergeStepOf(st, Head(rest)), Tail(rest))

\* list(merge_intervals(intervals))
MergeIntervals(intervals) ==
    LET srt == SortByStart(intervals)
    IN  IF srt = <<>> THEN <<>>
        ELSE MergeSweep([low |-> srt[1][1], high |-> srt[1][2], out |-> <<>>],
                        Tail(srt))

\* Sort; return at once on an empty list, else open the first run.
MergeStart ==
    /\ mi_pc = "start"
    /\ LET srt == SortByStart(mi_in)
       IN  IF srt = <<>>
           THEN /\ mi_pc' = "done"
                /\ UNCHANGED <<mi_rest, mi_low, mi_high>>
           ELSE /\ mi_low' = srt[1][1]
                /\ mi_high' = srt[1][2]
                /\ mi_rest' = Tail(srt)
                /\ mi_pc' = "loop"
    /\ UNCHANGED <<mi_in, mi_out>>
    /\ UNCHANGED <<layoutVars, frameVars, posVars, tabixVars>>

\* One iteration of the sweep.
MergeStep ==
    /\ mi_pc = "loop"
    /\ mi_rest # <<>>
    /\ LET r == MergeStepOf([low |-> mi_low, high |-> mi_high, out |-> mi_out],
                            Head(mi_rest))
       IN  /\ mi_low' = r.low
           /\ mi_high' = r.high
           /\ mi_out' = r.out
    /\ mi_rest' = Tail(mi_rest)
    /\ UNCHANGED <<mi_in, mi_pc>>
    /\ UNCHANGED <<layoutVars, frameVars, posVars, tabixVars>>

\* The final "yield low, high".
MergeEnd ==
    /\ mi_pc = "loop"
    /\ mi_rest = <<>>
    /\ mi_out' = Append(mi_out, <<mi_low, mi_high>>)
    /\ mi_pc' = "done"
    /\ UNCHANGED <<mi_in, mi_rest, mi_low, mi_high>>
    /\ UNCHANGED <<layoutVars, frameVars, posVars, tabixVars>>

NextMerge == MergeStart \/ MergeStep \/ MergeEnd

\* ------------------------------------------------------- from_position
\* width // 2
HalfWidth(w) == w \div 2

\* data.assign(start=data['position'] - (width // 2),
\*             end=data['position'] + (width // 2))
FromPosition ==
    /\ fp_pc = "call"
    /\ fp_out' = [i \in 1..Len(fp_position) |->
                    [start |-> fp_position[i] - HalfWidth(fp_width),
                     end   |-> fp_position[i] + HalfWidth(fp_width)]]
    /\ fp_pc' = "done"
    /\ UNCHANGED <<fp_position, fp_width>>
    /\ UNCHANGED <<layoutVars, mergeVars, frameVars, tabixVars>>

NextPosition == FromPosition

\* ------------------------------------------------------------ TabixFile
\* Records are [contig, start, end]; q = [reference, start, end, incl_left,
\* incl_right].
\* file_.fetch(reference=reference, start=start, end=end): the records of
\* the reference that overlap [start, end), in file order.
FetchRecords(file, q) ==
    LET Hit(r) == r.contig = q.reference /\ r.start < q.end /\ r.end > q.start
    IN  SelectSeq(file, Hit)

\* Variant: no filter on the left bound.
KeepLeftAlways(r, q) == TRUE

\* if not incl_left: filter(lambda r: r.start > start, records)
KeepLeft(r, q) == q.incl_left \/ r.start > q.start

\* if not incl_right: filter(lambda r: r.end < end, records)
KeepRight(r, q) == q.incl_right \/ r.end < q.end

\* _filter_records with filters=None
FilterRecords(records, q) ==
    LET Keep(r) == KeepLeft(r, q) /\ KeepRight(r, q)
    IN  SelectSeq(records, Keep)

\* TabixFile.fetch(reference, start, end, incl_left=.., incl_right=..,
\* raw=True)
Fetch ==
    /\ tb_pc = "call"
    /\ tb_out' = FilterRecords(FetchRecords(tb_file, tb_query), tb_query)
    /\ tb_pc' = "done"
    /\ UNCHANGED <<tb_file, tb_query>>
    /\ UNCHANGED <<layoutVars, mergeVars, frameVars, posVars>>

NextTabix == Fetch

\* ------------------------------------------------------ specifications
WellFormedRows(G) ==
    {r \in [start : Coords, end : Coords, height : Heights, grp : G] :
        r.start < r.end}

AnyRows ==
    [start : Coords, end : Coords, height : (-1)..MaxHeight, grp : {0}]

\* ---------------------------------------------------- GenomicDataFrame
\* Rows are records [chromosome, start, end]; a stored interval is the tuple
\* <<chromosome, start, end, index>>, index being the row's position.
Chromosomes == {1, 2}

FrameTuples(rows) ==
    [i \in 1..Len(rows) |->
        <<rows[i].chromosome, rows[i].start, rows[i].end, i>>]

\* Variant: the tuples are grouped in row order, without sorting.
SortByChromosomeNone(s) == s

RECURSIVE InsertByChromosome(_, _)
InsertByChromosome(x, s) ==
    IF s = <<>> THEN <<x>>
    ELSE IF x[1] < Head(s)[1] THEN <<x>> \o s
    ELSE <<Head(s)>> \o InsertByChromosome(x, Tail(s))

\* position_df.sort_values(by='chromosome')
RECURSIVE SortByChromosome(_)
SortByChromosome(s) ==
    IF s = <<>> THEN <<>>
    ELSE InsertByChromosome(s[Len(s)],
                            SortByChromosome(SubSeq(s, 1, Len(s) - 1)))

\* itertools.groupby yields runs of equal keys; trees[chrom] = ... keeps the
\* last run of each chromosome.
GroupedTrees(s) ==
    {s[i] : i \in {i \in 1..Len(s) :
        \A j \in i..Len(s) :
            s[j][1] = s[i][1] => \A m \in i..j : s[m][1] = s[i][1]}}

\* _build_trees: the stored intervals of all per-chromosome trees.
BuildTrees(rows) == GroupedTrees(SortByChromosome(FrameTuples(rows)))

\* IntervalTree.from_tuples raises ValueError for a null interval.
BuildRaises(rows) == \E i \in 1..Len(rows) : rows[i].start >= rows[i].end

\* IntervalTree.search(begin, end): the intervals holding begin, and those
\* holding a boundary point in [begin, end).
TreeSearch(tree, begin, end) ==
    IF tree = {} THEN {}
    ELSE IF begin >= end THEN {}
    ELSE LET bounds == {iv[2] : iv \in tree} \cup {iv[3] : iv \in tree}
         IN  {iv \in tree : iv[2] <= begin /\ begin < iv[3]} \cup
             {iv \in tree : \E b \in bounds :
                 begin <= b /\ b < end /\ iv[2] <= b /\ b < iv[3]}

\* self._trees[chromosome]: the dict has a key per chromosome with rows.
HasTree(trees, chromosome) == \E iv \in trees : iv[1] = chromosome

\* GenomicDataFrame.search(chromosome, begin, end), the trees property
\* included: build on first use, look the chromosome up, search, iloc.
Search ==
    /\ gdf_ops < MaxOps
    /\ \E c \in Chromosomes : \E b \in Coords : \E e \in Coords :
        LET trees == IF gdf_built THEN gdf_trees ELSE BuildTrees(gdf_rows)
        IN  /\ gdf_query' = [chromosome |-> c, begin |-> b, end |-> e]
            /\ IF ~gdf_built /\ BuildRaises(gdf_rows)
               THEN /\ gdf_err' = "ValueError"
                    /\ gdf_result' = {}
                    /\ UNCHANGED <<gdf_built, gdf_trees>>
               ELSE /\ gdf_built' = TRUE
                    /\ gdf_trees' = trees
                    /\ IF HasTree(trees, c)
                       THEN /\ gdf_err' = "none"
                            /\ gdf_result' =
                                 {iv[4] : iv \in TreeSearch(
                                     {t \in trees : t[1] = c}, b, e)}
                       ELSE /\ gdf_err' = "KeyError"
                            /\ gdf_result' = {}
    /\ gdf_last' = "search"
    /\ gdf_ops' = gdf_ops + 1
    /\ UNCHANGED gdf_rows
    /\ UNCHANGED <<layoutVars, mergeVars, posVars, tabixVars>>

FrameRows ==
    {r \in [chromosome : Chromosomes, start : Coords, end : Coords] :
        r.start < r.end}

\* The dataset changes in place (frame.iloc[i] = row); nothing in the class
\* touches _trees.
Modify ==
    /\ gdf_ops < MaxOps
    /\ \E i \in 1..Len(gdf_rows) : \E r \in FrameRows :
        /\ r # gdf_rows[i]
        /\ gdf_rows' = [gdf_rows EXCEPT ![i] = r]
    /\ gdf_last' = "modify"
    /\ gdf_err' = "none"
    /\ gdf_result' = {}
    /\ gdf_ops' = gdf_ops + 1
    /\ UNCHANGED <<gdf_built, gdf_trees, gdf_query>>
    /\ UNCHANGED <<layoutVars, mergeVars, posVars, tabixVars>>

NextSearch == Search

NextFrame == Search \/ Modify

\* No GenomicDataFrame is in use.
FrameIdle ==
    /\ gdf_rows = <<>>
    /\ gdf_built = FALSE
    /\ gdf_trees = {}
    /\ gdf_last = "none"
    /\ gdf_query = [chromosome |-> 0, begin |-> 0, end |-> 0]
    /\ gdf_result = {}
    /\ gdf_err = "none"
    /\ gdf_ops = 0

\* No from_position call.
PositionIdle ==
    /\ fp_position = <<>>
    /\ fp_width = 1
    /\ fp_out = <<>>
    /\ fp_pc = "idle"

\* No TabixFile in use.
TabixIdle ==
    /\ tb_file = <<>>
    /\ tb_query = [reference |-> 0, start |-> 0, end |-> 0,
                   incl_left |-> TRUE, incl_right |-> TRUE]
    /\ tb_out = <<>>
    /\ tb_pc = "idle"

\* No merge_intervals call is under way.
MergeIdle ==
    /\ mi_in = <<>>
    /\ mi_rest = <<>>
    /\ mi_low = 0
    /\ mi_high = 0
    /\ mi_out = <<>>
    /\ mi_pc = "idle"

\* No layout call is under way.
\* stack without a label column.
NoLabels ==
    /\ label = FALSE
    /\ reversed = FALSE
    /\ label_calls = <<>>

\* No get_height or draw call.
NoTrack ==
    /\ region = [seqname |-> 0, start |-> 0, end |-> 0]
    /\ track_height = 0
    /\ ax_texts = 0
    /\ ax_ylim = 0
    /\ actor_y = <<>>

LayoutIdle ==
    /\ impl = "feature"
    /\ data = <<>>
    /\ group = FALSE
    /\ spacing = 0
    /\ pc = "idle"
    /\ stack_spacing = 0
    /\ objects = <<>>
    /\ levels = <<>>
    /\ level_heights = <<>>
    /\ level_offsets = <<>>
    /\ y = <<>>
    /\ err = "none"
    /\ NoLabels
    /\ NoTrack

InitWith(I, D, G) ==
    /\ MergeIdle
    /\ FrameIdle
    /\ PositionIdle
    /\ TabixIdle
    /\ impl \in I
    /\ data \in D
    /\ group = G
    /\ spacing \in Spacings
    /\ pc = "call"
    /\ stack_spacing = 0
    /\ objects = <<>>
    /\ levels = <<>>
    /\ level_heights = <<>>
    /\ level_offsets = <<>>
    /\ y = <<>>
    /\ err = "none"
    /\ NoLabels
    /\ NoTrack

\* stack without a group column / StackedTrack, well-formed intervals.
Init == InitWith(Impls, SeqsUpTo(WellFormedRows({0}), MaxN), FALSE)
Spec == Init /\ [][Next]_vars

\* stack with a group column.
InitGrouped ==
    InitWith({"feature"}, SeqsUpTo(WellFormedRows(Groups), MaxRows), TRUE)
SpecGrouped == InitGrouped /\ [][Next]_vars

\* stack with a group column and a label column, on a forward or reversed
\* x-axis.
Labels == {1, 2}

LabelledRows ==
    {r \in [start : Coords, end : Coords, height : {1}, grp : Groups,
            lab : Labels] : r.start < r.end}

InitLabels ==
    /\ MergeIdle
    /\ FrameIdle
    /\ PositionIdle
    /\ TabixIdle
    /\ NoTrack
    /\ impl = "feature"
    /\ data \in SeqsUpTo(LabelledRows, MaxRows)
    /\ group = TRUE
    /\ label = TRUE
    /\ reversed \in BOOLEAN
    /\ label_calls = <<>>
    /\ spacing = DefaultSpacing
    /\ pc = "call"
    /\ stack_spacing = 0
    /\ objects = <<>>
    /\ levels = <<>>
    /\ level_heights = <<>>
    /\ level_offsets = <<>>
    /\ y = <<>>
    /\ err = "none"
SpecLabels == InitLabels /\ [][Next]_vars

\* FeatureTrack.get_height on unnamed features, for a region of seqname 1.
Actors ==
    {a \in [seqname : Chromosomes, start : Coords, end : Coords,
            height : {1, DefaultFeatureHeight}] : a.start < a.end}

Regions ==
    {r \in [seqname : {1}, start : Coords, end : Coords] : r.start < r.end}

InitTrack ==
    /\ MergeIdle
    /\ FrameIdle
    /\ PositionIdle
    /\ TabixIdle
    /\ NoLabels
    /\ impl = "annotation"
    /\ data \in SeqsUpTo(Actors, MaxActors)
    /\ group = FALSE
    /\ spacing \in {1, DefaultTrackSpacing}
    /\ region \in Regions
    /\ track_height = 0
    /\ ax_texts = 0
    /\ ax_ylim = 0
    /\ actor_y = <<>>
    /\ pc = "call"
    /\ stack_spacing = 0
    /\ objects = <<>>
    /\ levels = <<>>
    /\ level_heights = <<>>
    /\ level_offsets = <<>>
    /\ y = <<>>
    /\ err = "none"
SpecTrack == InitTrack /\ [][NextTrack]_vars

\* draw of a track on an empty axis: tracks/feature.py FeatureTrack with or
\* without group and label columns, or the annotation FeatureTrack with or
\* without names, for a region of seqname 1.
NamedActors ==
    {a \in [seqname : Chromosomes, start : Coords, end : Coords,
            height : {1, DefaultFeatureHeight}, lab : {1}] : a.start < a.end}

InitAxis ==
    /\ MergeIdle
    /\ FrameIdle
    /\ PositionIdle
    /\ TabixIdle
    /\ \/ /\ impl = "feature"
          /\ data \in SeqsUpTo(LabelledRows, MaxRows)
          /\ group \in BOOLEAN
          /\ spacing = DefaultSpacing
          /\ region = [seqname |-> 0, start |-> 0, end |-> 0]
       \/ /\ impl = "annotation"
          /\ data \in SeqsUpTo(NamedActors, MaxActors)
          /\ group = FALSE
          /\ spacing = DefaultTrackSpacing
          /\ region \in Regions
    /\ label \in BOOLEAN
    /\ reversed = FALSE
    /\ label_calls = <<>>
    /\ track_height = 0
    /\ ax_texts = 0
    /\ ax_ylim = 0
    /\ actor_y = <<>>
    /\ pc = "call"
    /\ stack_spacing = 0
    /\ objects = <<>>
    /\ levels = <<>>
    /\ level_heights = <<>>
    /\ level_offsets = <<>>
    /\ y = <<>>
    /\ err = "none"
SpecAxis == InitAxis /\ [][NextAxis]_vars

\* from_position on up to two positions, every width 1..MaxWidth.
InitPosition ==
    /\ LayoutIdle
    /\ MergeIdle
    /\ FrameIdle
    /\ TabixIdle
    /\ fp_position \in SeqsUpTo(0..MaxPosition, 2)
    /\ fp_width \in 1..MaxWidth
    /\ fp_out = <<>>
    /\ fp_pc = "call"
SpecPosition == InitPosition /\ [][NextPosition]_vars

\* A tabix file is sorted by contig and start.
TabixRecords ==
    {r \in [contig : Chromosomes, start : Coords, end : Coords] :
        r.start < r.end}

TabixFiles ==
    {f \in SeqsUpTo(TabixRecords, MaxRecords) :
        \A i \in 1..(Len(f) - 1) :
            \/ f[i].contig < f[i + 1].contig
            \/ f[i].contig = f[i + 1].contig /\ f[i].start <= f[i + 1].start}

TabixQueries ==
    {q \in [reference : Chromosomes, start : Coords, end : Coords,
            incl_left : BOOLEAN, incl_right : BOOLEAN] : q.start < q.end}

InitTabix ==
    /\ LayoutIdle
    /\ MergeIdle
    /\ FrameIdle
    /\ PositionIdle
    /\ tb_file \in TabixFiles
    /\ tb_query \in TabixQueries
    /\ tb_out = <<>>
    /\ tb_pc = "call"
SpecTabix == InitTabix /\ [][NextTabix]_vars

\* merge_intervals on pairs with start <= end, in any order.
Pairs == {p \in Coords \X Coords : p[1] <= p[2]}

InitMerge ==
    /\ LayoutIdle
    /\ FrameIdle
    /\ PositionIdle
    /\ TabixIdle
    /\ mi_in \in SeqsUpTo(Pairs, MaxPairs)
    /\ mi_rest = <<>>
    /\ mi_low = 0
    /\ mi_high = 0
    /\ mi_out = <<>>
    /\ mi_pc = "start"
SpecMerge == InitMerge /\ [][NextMerge]_vars

\* A fresh GenomicDataFrame of at most n rows (the constructor sets
\* _trees = None).
InitFrameOf(n) ==
    /\ LayoutIdle
    /\ MergeIdle
    /\ PositionIdle
    /\ TabixIdle
    /\ gdf_rows \in SeqsUpTo(FrameRows, n)
    /\ gdf_built = FALSE
    /\ gdf_trees = {}
    /\ gdf_last = "none"
    /\ gdf_query = [chromosome |-> 0, begin |-> 0, end |-> 0]
    /\ gdf_result = {}
    /\ gdf_err = "none"
    /\ gdf_ops = 0

InitFrame == InitFrameOf(MaxFrameRows)

InitStale == InitFrameOf(MaxStaleRows)

\* searches on a frame that is not modified.
SpecSearch == InitFrame /\ [][NextSearch]_vars

\* searches interleaved with in-place changes of the dataset.
SpecFrame == InitStale /\ [][NextFrame]_vars

\* the packer fed intervals a caller should not pass.
InitMalformed == InitWith({"feature"}, SeqsUpTo(AnyRows, MaxBad), FALSE)
SpecMalformed == InitMalformed /\ [][Next]_vars

\* ============================================================== claims
Overlap(a, b) == a.start < b.end /\ b.start < a.end

LevelIndex(lv, idx) == CHOOSE k \in 1..Len(lv) : \E b \in lv[k] : b.Index = idx

Finished == pc = "done"

\* C1: after every placement step no two distinct intervals of one level
\* have overlapping half-open spans [start, end).
C1_NoOverlapInLevel ==
    \A k \in 1..Len(levels) :
        \A a \in levels[k] : \A b \in levels[k] :
            a # b => ~Overlap(a, b)

C1_Witness ==
    /\ pc = "pack"
    /\ Len(levels) >= 2
    /\ \E k \in 1..Len(levels) : Cardinality(levels[k]) >= 2

\* C2: the offsets of consecutive levels differ by at least the taller of
\* the two levels' heights plus the spacing.
C2_ConsecutiveGap ==
    Finished =>
        \A k \in 1..(Len(level_offsets) - 1) :
            level_offsets[k + 1] - level_offsets[k] >=
                Max({level_heights[k], level_heights[k + 1]}) + stack_spacing

\* C3: offset(k+1) = offset(k) + height(k) + spacing for consecutive levels
\* of feature._stack.
C3_OffsetRecurrence ==
    (Finished /\ impl = "feature") =>
        \A k \in 1..(Len(level_offsets) - 1) :
            level_offsets[k + 1] =
                level_offsets[k] + level_heights[k] + stack_spacing

\* C4 as stated: the first-created level has offset 0.
C4_FirstOffsetZero ==
    (Finished /\ Len(levels) >= 1) => level_offsets[1] = 0

\* C4 amended: the first-created level has offset equal to one spacing
\* increment of _stack; a single interval yields exactly one level and its
\* y is that spacing.
C4_FirstOffsetIsSpacing ==
    (Finished /\ Len(data) >= 1) =>
        /\ Len(levels) >= 1
        /\ level_offsets[1] = stack_spacing
        /\ Len(data) = 1 => (Len(levels) = 1 /\ y[1] = stack_spacing)

C4_Witness ==
    /\ Finished
    /\ Len(data) = 1
    /\ data[1].height > 0
    /\ stack_spacing > 0
    /\ y[1] = stack_spacing

\* C5: with a group column every member row of a group gets the same y, the
\* offset of the level holding the group's representative interval
\* (min member start, max member end, max member height).
C5_GroupBroadcast ==
    (Finished /\ group) =>
        \A i \in 1..Len(data) :
            \E k \in 1..Len(levels) :
                /\ y[i] = level_offsets[k]
                /\ \E b \in levels[k] :
                    /\ b.Index = data[i].grp
                    /\ \A j \in Members(data, data[i].grp) :
                        /\ y[j] = y[i]
                        /\ b.start <= data[j].start
                        /\ b.end >= data[j].end
                        /\ b.height >= data[j].height
                    /\ \E j \in Members(data, data[i].grp) :
                            b.start = data[j].start
                    /\ \E j \in Members(data, data[i].grp) :
                            b.end = data[j].end
                    /\ \E j \in Members(data, data[i].grp) :
                            b.height = data[j].height

C5_Witness ==
    /\ Finished
    /\ group
    /\ Len(levels) >= 2
    /\ \E i \in 1..Len(data) : \E j \in 1..Len(data) :
        /\ i # j
        /\ data[i].grp = data[j].grp
        /\ data[i].start # data[j].start
        /\ y[i] = y[j]
        /\ y[i] = level_offsets[2]

BoundingSpan(g) ==
    [start |-> Min({data[i].start : i \in Members(data, g)}),
     end   |-> Max({data[i].end : i \in Members(data, g)})]

SameYDisjoint ==
    \A i \in 1..Len(data) : \A j \in 1..Len(data) :
        (data[i].grp # data[j].grp /\ y[i] = y[j]) =>
            /\ ~Overlap(BoundingSpan(data[i].grp), BoundingSpan(data[j].grp))
            /\ ~Overlap(data[i], data[j])

\* C6 as stated: two different groups that receive the same y have
\* non-overlapping bounding spans, so their members do not overlap.
C6_SameYDisjoint == (Finished /\ group) => SameYDisjoint

\* C6 amended: the same, provided the spacing is positive or every height
\* is positive (otherwise two levels can share one offset).
C6_SameYDisjointPositive ==
    (/\ Finished
     /\ group
     /\ \/ stack_spacing > 0
        \/ \A i \in 1..Len(data) : data[i].height > 0) => SameYDisjoint

C6_Witness ==
    /\ Finished
    /\ group
    /\ stack_spacing > 0
    /\ Len(data) = 3
    /\ Len(levels) = 1
    /\ \E i \in 1..Len(data) : \E j \in 1..Len(data) :
        data[i].grp # data[j].grp /\ y[i] = y[j]

Perms(n) == {p \in [1..n -> 1..n] : \A i \in 1..n : \A j \in 1..n :
                p[i] = p[j] => i = j}

Permuted(boxes, p) == [i \in 1..Len(boxes) |-> boxes[p[i]]]

\* Packing a permutation of the rows gives every row the level index and
\* the offset that the finished call gave it.
OrderIndependent ==
    \A p \in Perms(Len(data)) :
        LET r   == Pack(impl, Permuted(RowBoxes(data), p))
            off == LevelOffsets(impl, r.level_heights, stack_spacing)
        IN  \A i \in 1..Len(data) :
                /\ LevelIndex(r.levels, i) = LevelIndex(levels, i)
                /\ OffsetOf(r.levels, off, i) = y[i]

DistinctKeys ==
    \A i \in 1..Len(data) : \A j \in 1..Len(data) :
        i # j => \/ data[i].height # data[j].height
                 \/ data[i].end - data[i].start # data[j].end - data[j].start

\* The rows form a set: no two rows are the same interval.
NoDuplicates ==
    \A i \in 1..Len(data) : \A j \in 1..Len(data) :
        i # j => data[i] # data[j]

\* C7 as stated: any two orderings of the same intervals get the same level
\* index and offset for every interval, ties on height and span included.
C7_OrderIndependent ==
    (Finished /\ impl = "feature" /\ ~group /\ NoDuplicates) =>
        OrderIndependent

\* C7 amended: the same, for inputs in which no two intervals tie on both
\* height and span length.
C7_OrderIndependentDistinctKeys ==
    (Finished /\ impl = "feature" /\ ~group /\ DistinctKeys) => OrderIndependent

C7_Witness ==
    /\ Finished
    /\ impl = "feature"
    /\ ~group
    /\ DistinctKeys
    /\ Len(data) = 3
    /\ Len(levels) = 2
    /\ data[1].height = data[2].height
    /\ data[1].end - data[1].start < data[2].end - data[2].start

\* C8: two equal-height intervals [a,b) and [b,c) that only touch share one
\* level; [a,b) and [b-1,c) overlap by one unit and take two levels.
C8_HalfOpenBoundary ==
    (/\ Finished
     /\ ~group
     /\ Len(data) = 2
     /\ data[1].height = data[2].height) =>
        \A i \in {1, 2} :
            LET a == data[i]
                b == data[3 - i]
            IN  /\ a.end = b.start => Len(levels) = 1
                /\ (a.end - 1 = b.start) => Len(levels) = 2

C8_Witness ==
    /\ Finished
    /\ ~group
    /\ Len(data) = 2
    /\ data[1].height = data[2].height
    /\ data[1].start < data[1].end - 1
    /\ data[2].start = data[1].end - 1
    /\ data[2].end > data[1].end
    /\ Len(levels) = 2

\* C9: for an empty input _pack_ffdh followed by feature._stack completes
\* without an error and yields empty levels and empty offsets.
C9_EmptyInputNoError ==
    (impl = "feature" /\ data = <<>> /\ pc \in {"done", "raised"}) =>
        /\ err = "none"
        /\ levels = <<>>
        /\ level_offsets = <<>>

Malformed(r) == r.start > r.end \/ r.height < 0

C11_ZeroLengthAccepted ==
    (/\ data # <<>>
     /\ \A i \in 1..Len(data) : data[i].start <= data[i].end /\ data[i].height >= 0
     /\ \E i \in 1..Len(data) : data[i].start = data[i].end) =>
        /\ pc # "raised"
        /\ \A k \in 1..Len(levels) :
            \A a \in levels[k] : \A b \in levels[k] :
                (a.start = a.end /\ b.start < b.end) =>
                    ~(b.start <= a.start /\ a.start < b.end)

MergeDone == mi_pc = "done"

\* C12: for pairs with start <= end in any order, merge_intervals yields
\* pairs in strictly increasing order of low with a strict gap between
\* consecutive pairs, and yields nothing exactly when the input is empty.
C12_MergedIncreasingWithGaps ==
    MergeDone =>
        /\ \A k \in 1..(Len(mi_out) - 1) :
            /\ mi_out[k + 1][1] > mi_out[k][1]
            /\ mi_out[k + 1][1] > mi_out[k][2]
        /\ (mi_out = <<>>) <=> (mi_in = <<>>)

C12_Witness ==
    /\ MergeDone
    /\ Len(mi_in) = 3
    /\ mi_in[1][1] > mi_in[2][1]
    /\ mi_in[2][1] > mi_in[3][1]
    /\ Len(mi_out) = 2

Within(p, q) == q[1] <= p[1] /\ p[2] <= q[2]

\* C13: every input pair lies within exactly one output pair, and every
\* output pair is the union of the input pairs it contains: its low is
\* their smallest start, its high their largest end.
C13_MergeCoverage ==
    MergeDone =>
        /\ \A i \in 1..Len(mi_in) :
            Cardinality({k \in 1..Len(mi_out) : Within(mi_in[i], mi_out[k])}) = 1
        /\ \A k \in 1..Len(mi_out) :
            LET inside == {i \in 1..Len(mi_in) : Within(mi_in[i], mi_out[k])}
            IN  /\ inside # {}
                /\ mi_out[k][1] = Min({mi_in[i][1] : i \in inside})
                /\ mi_out[k][2] = Max({mi_in[i][2] : i \in inside})
                /\ \A q \in mi_out[k][1]..mi_out[k][2] :
                    \E i \in inside : mi_in[i][1] <= q /\ q <= mi_in[i][2]

C13_Witness ==
    /\ MergeDone
    /\ Len(mi_in) = 3
    /\ Len(mi_out) = 2
    /\ mi_in[1][1] < mi_in[3][1]
    /\ mi_in[3][1] < mi_in[2][1]
    /\ mi_in[3][2] > mi_in[1][2]
    /\ mi_out[1] = <<mi_in[1][1], mi_in[3][2]>>
    /\ mi_out[2] = mi_in[2]

\* C14: a pair whose start is <= the run's high is merged into the run,
\* equality included ((a,b) and (b,c) give (a,c)); a start strictly greater
\* than the run's high starts a new output pair.
C14_TouchingPairsMerge ==
    (MergeDone /\ Len(mi_in) = 2) =>
        LET a == IF mi_in[1][1] <= mi_in[2][1] THEN mi_in[1] ELSE mi_in[2]
            b == IF mi_in[1][1] <= mi_in[2][1] THEN mi_in[2] ELSE mi_in[1]
        IN  IF b[1] <= a[2]
            THEN mi_out = << <<a[1], IF a[2] >= b[2] THEN a[2] ELSE b[2]>> >>
            ELSE mi_out = <<a, b>>

C14_Witness ==
    /\ MergeDone
    /\ Len(mi_in) = 2
    /\ mi_in[1][1] < mi_in[1][2]
    /\ mi_in[1][2] = mi_in[2][1]
    /\ mi_in[2][1] < mi_in[2][2]
    /\ mi_out = << <<mi_in[1][1], mi_in[2][2]>> >>


\* The rows a search of the frame's current rows must return: same
\* chromosome, and a point shared by [start, end) and [begin, end).
ExactRows(rows, q) ==
    {i \in 1..Len(rows) :
        /\ rows[i].chromosome = q.chromosome
        /\ \E p \in Coords :
            /\ rows[i].start <= p /\ p < rows[i].end
            /\ q.begin <= p /\ p < q.end}

HasRows(rows, chromosome) ==
    \E i \in 1..Len(rows) : rows[i].chromosome = chromosome

\* C15: a search for a chromosome that has rows returns exactly the rows of
\* that chromosome whose [start, end) overlaps [begin, end) half-open, each
\* once, whatever the row order of the chromosomes.
C15_SearchExact ==
    (gdf_last = "search" /\ HasRows(gdf_rows, gdf_query.chromosome)) =>
        /\ gdf_err = "none"
        /\ gdf_result = ExactRows(gdf_rows, gdf_query)

\* Chromosomes interleaved as 1, 2, 1; one row of the queried chromosome is
\* returned, another only touches the query's begin and is left out.
C15_Witness ==
    /\ gdf_last = "search"
    /\ Len(gdf_rows) = 3
    /\ gdf_rows[1].chromosome = 1
    /\ gdf_rows[2].chromosome = 2
    /\ gdf_rows[3].chromosome = 1
    /\ gdf_query.chromosome = 1
    /\ gdf_rows[1].end = gdf_query.begin
    /\ gdf_result = {3}

\* C16: a search for a chromosome without rows returns an empty result and
\* raises nothing.
C16_UnknownChromosomeEmpty ==
    (gdf_last = "search" /\ ~HasRows(gdf_rows, gdf_query.chromosome)) =>
        /\ gdf_err = "none"
        /\ gdf_result = {}

\* C17: every search that returns, after any searches and modifications,
\* returns what an index built from the current rows would return.
C17_IndexNeverStale ==
    (gdf_last = "search" /\ gdf_err = "none") =>
        gdf_result = {iv[4] : iv \in TreeSearch(
            {t \in BuildTrees(gdf_rows) : t[1] = gdf_query.chromosome},
            gdf_query.begin, gdf_query.end)}

GroupKeys(d) == {d[i].grp : i \in 1..Len(d)}

FirstMember(d, g) ==
    CHOOSE i \in 1..Len(d) :
        d[i].grp = g /\ \A j \in 1..Len(d) : d[j].grp = g => i <= j

GroupAnchor(d, g, rev) ==
    IF rev
    THEN CHOOSE e \in {d[i].end : i \in 1..Len(d)} :
            /\ \E i \in 1..Len(d) : d[i].grp = g /\ d[i].end = e
            /\ \A i \in 1..Len(d) : d[i].grp = g => d[i].end <= e
    ELSE CHOOSE b \in {d[i].start : i \in 1..Len(d)} :
            /\ \E i \in 1..Len(d) : d[i].grp = g /\ d[i].start = b
            /\ \A i \in 1..Len(d) : d[i].grp = g => b <= d[i].start

\* C18: in a stack call with a group and a label column the label function
\* is called exactly once per group, in group key order, each call with the
\* group's min start (its max end on a reversed x-axis) and the label of the
\* group's first member row.
C18_OneLabelCallPerGroup ==
    (pc # "call" /\ group /\ label) =>
        /\ Len(label_calls) = Cardinality(GroupKeys(data))
        /\ \A g \in GroupKeys(data) :
            LET k == Cardinality({h \in GroupKeys(data) : h <= g})
            IN  /\ label_calls[k].x = GroupAnchor(data, g, reversed)
                /\ label_calls[k].label = data[FirstMember(data, g)].lab

\* Reversed axis, three rows in two groups; the two-member group's first row
\* has neither the group's max end nor the other member's label.
C18_Witness ==
    /\ pc = "done"
    /\ label
    /\ reversed
    /\ Len(data) = 3
    /\ Len(label_calls) = 2
    /\ \E i \in 1..3 : \E j \in 1..3 :
        /\ i < j
        /\ data[i].grp = data[j].grp
        /\ data[i].end < data[j].end
        /\ data[i].lab # data[j].lab

\* C19: the spacing argument of stack is the gap used in the returned
\* offsets, with and without a group column.
C19_SpacingArgumentUsed ==
    (Finished /\ impl = "feature") =>
        level_offsets = FeatureOffsets(level_heights, spacing)

RECURSIVE TallestSum(_, _)
TallestSum(lv, k) ==
    IF k = 0 THEN 0
    ELSE Max({b.height : b \in lv[k]}) + TallestSum(lv, k - 1)

InRegion(a, r) ==
    /\ a.seqname = r.seqname
    /\ \E p \in (-1)..MaxCoord :
        /\ a.start <= p /\ p < a.end
        /\ r.start <= p /\ p < r.end

\* C20: get_height for a region packs exactly the actors that fall in the
\* region and returns the sum of the level heights plus (number of levels
\* + 1) times the spacing.
C20_TrackHeight ==
    (Finished /\ impl = "annotation") =>
        /\ UNION {{b.Index : b \in levels[k]} : k \in 1..Len(levels)} =
               {i \in 1..Len(data) : InRegion(data[i], region)}
        /\ track_height = TallestSum(levels, Len(levels)) +
                            (Len(levels) + 1) * spacing

\* Two non-overlapping features of height 1 in the region and a third actor
\* outside it, default spacing 0.2: the height is 1.4 (28 units).
C20_Witness ==
    /\ Finished
    /\ Len(data) = 3
    /\ spacing = DefaultTrackSpacing
    /\ Len(levels) = 1
    /\ Cardinality(levels[1]) = 2
    /\ \A b \in levels[1] : b.height = DefaultFeatureHeight
    /\ track_height = 28

\* The packing loop has started / is over.
Packing == pc # "call" /\ pc # "idle"

Packed == Packing /\ objects = <<>>

\* C21: the packer never has more levels than intervals it has placed, so
\* it ends with at most as many levels as there are input intervals.
C21_LevelsAtMostIntervals ==
    Packing =>
        /\ Len(levels) <= Len(data) - Len(objects)
        /\ Len(levels) <= Len(data)

\* Three pairwise overlapping intervals: the bound is attained.
C21_Witness ==
    /\ Finished
    /\ Len(data) = 3
    /\ Len(levels) = 3

\* Position of a box in the order the loop takes the boxes.
TakenAt(ord, b) == CHOOSE i \in 1..Len(ord) : ord[i].Index = b.Index

\* C25: the intervals are taken by height descending, then span length
\* descending; every placed interval overlaps, in each level below its own,
\* an interval placed before it, and overlaps nothing in its own level.
C25_FirstFitDecreasing ==
    (Packing /\ impl = "feature" /\ ~group) =>
        LET ord == SortDecreasing(impl, RowBoxes(data))
        IN  /\ \A i \in 1..(Len(ord) - 1) :
                \/ ord[i].height > ord[i + 1].height
                \/ /\ ord[i].height = ord[i + 1].height
                   /\ ord[i].end - ord[i].start >=
                      ord[i + 1].end - ord[i + 1].start
            /\ \A k \in 1..Len(levels) : \A b \in levels[k] :
                /\ \A j \in 1..(k - 1) : \E a \in levels[j] :
                    Overlap(a, b) /\ TakenAt(ord, a) < TakenAt(ord, b)
                /\ \A a \in levels[k] : a # b => ~Overlap(a, b)

\* The third interval taken fits the second level only.
C25_Witness ==
    /\ Finished
    /\ impl = "feature"
    /\ Len(data) = 3
    /\ Len(levels) = 2
    /\ Cardinality(levels[2]) = 2

\* C26: the height reported for a level is the maximum height among the
\* intervals assigned to it.
C26_LevelHeightIsMax ==
    Packing =>
        /\ Len(level_heights) = Len(levels)
        /\ \A k \in 1..Len(levels) :
            /\ \E b \in levels[k] : b.height = level_heights[k]
            /\ \A b \in levels[k] : b.height <= level_heights[k]

\* A level holding intervals of different heights.
C26_Witness ==
    /\ Finished
    /\ \E k \in 1..Len(levels) : \E a \in levels[k] : \E b \in levels[k] :
        a.height < b.height

\* C27: the offsets accumulated as in feature._stack and as in
\* StackedTrack._stack are the same for every level.
C27_SameOffsets ==
    (Finished /\ level_heights # <<>>) =>
        \A k \in 1..Len(level_heights) :
            FeatureOffsets(level_heights, stack_spacing)[k] =
                AnnotationOffsets(level_heights, stack_spacing)[k]

\* C28: when the packer returns, every input interval is in exactly one
\* level, unchanged; levels hold nothing else, none is empty, and there is
\* one level height per level.
C28_LevelsPartitionInput ==
    (Packed /\ ~group) =>
        /\ \A i \in 1..Len(data) :
            /\ Cardinality({k \in 1..Len(levels) :
                    \E b \in levels[k] : b.Index = i}) = 1
            /\ \A k \in 1..Len(levels) : \A b \in levels[k] :
                b.Index = i => b = RowBoxes(data)[i]
        /\ \A k \in 1..Len(levels) :
            /\ levels[k] # {}
            /\ \A b \in levels[k] : b.Index \in 1..Len(data)
        /\ Len(level_heights) = Len(levels)

\* Three intervals in two levels; an interval of the first level would fit
\* the second level as well.
C28_Witness ==
    /\ Packed
    /\ Len(data) = 3
    /\ Len(levels) = 2
    /\ \E b \in levels[1] : \A a \in levels[2] : ~Overlap(a, b)
    /\ Cardinality(levels[1]) = 2

\* C30: merge_intervals yields, for every permutation of its input, the
\* sequence it yields for the input.
C30_MergeOrderIndependent ==
    MergeDone =>
        \A p \in Perms(Len(mi_in)) :
            MergeIntervals(Permuted(mi_in, p)) = mi_out

\* Two pairs share a start and differ in their end, shorter one last.
C30_Witness ==
    /\ MergeDone
    /\ Len(mi_in) = 3
    /\ mi_in[1][1] = mi_in[3][1]
    /\ mi_in[1][2] > mi_in[3][2]
    /\ mi_in[2][1] > mi_in[1][2]
    /\ Len(mi_out) = 2

\* C22: from_position gives every feature end - start equal to the width
\* and centres it on its position, for every positive integer width.
C22_WidthAndCentre ==
    fp_pc = "done" =>
        \A i \in 1..Len(fp_out) :
            /\ fp_out[i].end - fp_out[i].start = fp_width
            /\ fp_out[i].start + fp_out[i].end = 2 * fp_position[i]

\* Set of the records of a sequence.
Range(f) == {f[i] : i \in 1..Len(f)}

Overlapping(file, q) ==
    {r \in Range(file) :
        r.contig = q.reference /\ r.start < q.end /\ q.start < r.end}

\* C24: with incl_left False only records starting at or after the query
\* start are returned, with incl_right False only records ending at or
\* before the query end; a flag left True keeps the records that reach
\* over that boundary, and with both True every overlapping record is
\* returned.
C24_InclusiveFlags ==
    tb_pc = "done" =>
        /\ Range(tb_out) \subseteq Overlapping(tb_file, tb_query)
        /\ ~tb_query.incl_left =>
               \A r \in Range(tb_out) : r.start >= tb_query.start
        /\ ~tb_query.incl_right =>
               \A r \in Range(tb_out) : r.end <= tb_query.end
        /\ tb_query.incl_left =>
               \A r \in Overlapping(tb_file, tb_query) :
                   (r.start < tb_query.start /\ r.end < tb_query.end)
                       => r \in Range(tb_out)
        /\ tb_query.incl_right =>
               \A r \in Overlapping(tb_file, tb_query) :
                   (r.end > tb_query.end /\ r.start > tb_query.start)
                       => r \in Range(tb_out)
        /\ (tb_query.incl_left /\ tb_query.incl_right) =>
               Range(tb_out) = Overlapping(tb_file, tb_query)

\* incl_left False, incl_right True: a record starting at the query start is
\* dropped, one reaching over the right bound is returned.
C24_Witness ==
    /\ tb_pc = "done"
    /\ ~tb_query.incl_left
    /\ tb_query.incl_right
    /\ \E r \in Overlapping(tb_file, tb_query) :
        r.start = tb_query.start /\ r \notin Range(tb_out)
    /\ \E r \in Range(tb_out) : r.end > tb_query.end

Drawn == pc = "drawn"

\* The features a draw has drawn: the rows handed to stack, or the actors
\* of the region.
DrawnFeatures ==
    IF impl = "feature" THEN Len(data) ELSE Cardinality(DOMAIN actor_y)

\* C23 as stated: after a draw the axis holds one text per drawn feature
\* when labels are requested and none when they are not.
C23_OneTextPerFeature ==
    Drawn => ax_texts = (IF label THEN DrawnFeatures ELSE 0)

\* C23: measuring leaves no text on the axis; after a draw the axis holds
\* no text when labels are not requested, and otherwise one text per drawn
\* feature, or one per group when the features are grouped.
C23_OneTextPerLabel ==
    /\ (pc = "pack" \/ pc = "done") => ax_texts = 0
    /\ Drawn =>
        ax_texts =
            (IF ~label THEN 0
             ELSE IF group THEN Cardinality(GroupKeys(data))
             ELSE DrawnFeatures)

\* Three labelled rows in two groups: three features, two texts.
C23_Witness ==
    /\ Drawn
    /\ impl = "feature"
    /\ group
    /\ label
    /\ Len(data) = 3
    /\ ax_texts = 2

\* C29: the upper y-limit StackedTrack.draw sets is what get_height returns
\* for the same actors and region, and every drawn actor's box
\* [y, y + height] lies within [0, limit].
C29_LimitIsHeight ==
    (Drawn /\ impl = "annotation") =>
        /\ ax_ylim = GetHeight(data, region, spacing, label)
        /\ \A i \in DOMAIN actor_y :
            /\ 0 <= actor_y[i]
            /\ actor_y[i] + data[i].height <= ax_ylim

\* Three actors drawn in two levels, a short one above a tall one.
C29_Witness ==
    /\ Drawn
    /\ impl = "annotation"
    /\ Cardinality(DOMAIN actor_y) = 3
    /\ Len(levels) = 2
    /\ level_heights[1] > level_heights[2]
====
